---- MODULE Spec2Model ----
(***************************************************************************)
(* Shortest-path search of dijkstra.py: the lazy Dijkstra kernel, the      *)
(* path reconstruction, the single-source search and the bidirectional     *)
(* search.  One behaviour is one caller that builds a graph with           *)
(* make_graph, calls dijkstra(graph, start, end) and then                  *)
(* bidirect_dijkstra(graph, start, end) on the same arguments.             *)
(*                                                                         *)
(* Costs are integers (the code adds floats; no claim depends on           *)
(* rounding).  The frontier is a heapdict: a mapping node -> priority      *)
(* whose popitem removes an entry of least priority; which entry it        *)
(* removes among several of equal priority is left open here.              *)
(*                                                                         *)
(* Two more specifications run one generator by itself: KernelSpec a       *)
(* dijkstra_kernel iterated to its end, BfsSpec the breadth-first kernel   *)
(* and search of bfs.py on the graph of the same edges.                    *)
(***************************************************************************)
EXTENDS Integers, Sequences, FiniteSets, TLC

\* ------------------------------------------------------------- bounds
NumNodes == 2
MaxEdges == 2
MaxCost == 1
ShapeCost == 3

Nodes == 1..NumNodes

\* two larger shapes, searched with every cost assignment from 0..ShapeCost:
\* three routes from node 1 to node 5 (over 2, over 2 and 4, over 3),
\* searched from 1 to 5
RouteShape ==
    [pairs |-> <<<<1, 2>>, <<1, 3>>, <<2, 4>>, <<2, 5>>, <<3, 5>>, <<4, 5>>>>,
     starts |-> {1}, ends |-> {5}]

\* a cycle between 1 and 2, two ways from 1 to the sink 3, and a node 4 that
\* nothing leads to; searched between every two of its nodes
LoopShape ==
    [pairs |-> <<<<1, 2>>, <<1, 3>>, <<2, 1>>, <<2, 3>>, <<4, 3>>>>,
     starts |-> 1..4, ends |-> 1..4]

\* Python's None, as node id and as payload (node ids and costs are >= 0)
None == 0 - 1

\* float('inf'): above every sum of two path costs of the model
Inf == 2 * (NumNodes * MaxCost + Len(RouteShape.pairs) * ShapeCost) + 1

\* ------------------------------------------------------------- helpers
Put(f, k, v) == [x \in (DOMAIN f) \cup {k} |-> IF x = k THEN v ELSE f[x]]

Remove(f, k) == [x \in (DOMAIN f) \ {k} |-> f[x]]

EmptyDict == [x \in {} |-> 0]

RECURSIVE Reverse(_)
Reverse(s) == IF s = <<>> THEN <<>> ELSE Append(Reverse(Tail(s)), Head(s))

\* ------------------------------------------------------------- graph
identity(value) == value

cost_fn(payload) == identity(payload)

RECURSIVE make_graph(_)
make_graph(source) ==
    IF source = <<>> THEN EmptyDict
    ELSE LET n == Len(source)
             graph == make_graph(SubSeq(source, 1, n - 1))
             edge == source[n]
             left == edge[1]
             right == edge[2]
             payload == identity(edge[3])
             old == IF left \in DOMAIN graph THEN graph[left] ELSE <<>>
         IN Put(graph, left, Append(old, <<right, payload>>))

\* the edges (left, right, payload) of an adjacency list, as a sequence in
\* the order "for left, edges in source.items(): for right, payload in edges"
\* (keys in increasing order)
RECURSIVE ItemsOf(_, _)
ItemsOf(graph, keys) ==
    IF keys = {} THEN <<>>
    ELSE LET left == CHOOSE k \in keys : \A other \in keys : k <= other
         IN [i \in 1..Len(graph[left]) |-> <<left, graph[left][i][1], graph[left][i][2]>>]
            \o ItemsOf(graph, keys \ {left})

Items(graph) == ItemsOf(graph, DOMAIN graph)

\* "reversed[left].append((right, payload))": no edge is turned round
reverse_graph_same(source) == make_graph(Items(source))

\* "reversed[right].append((left, payload))" for every edge of source
reverse_graph(source) ==
    make_graph([i \in 1..Len(Items(source)) |->
                   <<Items(source)[i][2], Items(source)[i][1], Items(source)[i][3]>>])

\* graph.get(left, [])
Get(graph, left) == IF left \in DOMAIN graph THEN graph[left] ELSE <<>>

\* ------------------------------------------------------------- kernel
\* the test without its second half: a known node is never improved
ImprovesOnlyNew(previous, right, alt_cost) == right \notin DOMAIN previous

\* the comparison with <= : an equal cost replaces the entry too
ImprovesOrEqual(previous, right, alt_cost) ==
    right \notin DOMAIN previous \/ alt_cost <= previous[right][2]

\* "right not in previous or alt_cost < previous[right][1]"
Improves(previous, right, alt_cost) ==
    right \notin DOMAIN previous \/ alt_cost < previous[right][2]

\* the for loop left after its first edge
RelaxFirstOnly(edges, left, cost, queue, previous) ==
    IF edges = <<>> THEN [queue |-> queue, previous |-> previous]
    ELSE LET right == Head(edges)[1]
             payload == Head(edges)[2]
             alt_cost == cost + cost_fn(payload)
         IN IF right \notin DOMAIN previous \/ alt_cost < previous[right][2]
            THEN [queue |-> Put(queue, right, alt_cost),
                  previous |-> Put(previous, right, <<left, alt_cost, payload>>)]
            ELSE [queue |-> queue, previous |-> previous]

\* the for loop over the edges of the node yielded last
RECURSIVE Relax(_, _, _, _, _)
Relax(edges, left, cost, queue, previous) ==
    IF edges = <<>> THEN [queue |-> queue, previous |-> previous]
    ELSE LET right == Head(edges)[1]
             payload == Head(edges)[2]
             alt_cost == cost + cost_fn(payload)
         IN IF Improves(previous, right, alt_cost)
            THEN Relax(Tail(edges), left, cost,
                       Put(queue, right, alt_cost),
                       Put(previous, right, <<left, alt_cost, payload>>))
            ELSE Relax(Tail(edges), left, cost, queue, previous)

\* dict.popitem in place of heapdict.popitem: any key
PopAnyItem(queue) == DOMAIN queue

\* heapdict.popitem: the keys it may remove, those of least priority
popitem(queue) == {n \in DOMAIN queue : \A m \in DOMAIN queue : queue[n] <= queue[m]}

NewKernel == [pos |-> "new", queue |-> EmptyDict, left |-> None, cost |-> 0]

\* the generator with the for loop moved before the yield: a node's edges
\* are relaxed as soon as it is popped
dijkstra_kernel_eager(graph, begin, k, previous) ==
    LET s == IF k.pos = "new"
             THEN [queue |-> Put(EmptyDict, begin, 0),
                   previous |-> Put(previous, begin, <<None, 0, None>>)]
             ELSE [queue |-> k.queue, previous |-> previous]
    IN IF DOMAIN s.queue = {}
       THEN {[kernel |-> [pos |-> "done", queue |-> s.queue, left |-> k.left, cost |-> k.cost],
              previous |-> s.previous]}
       ELSE {LET r == Relax(Get(graph, n), n, s.queue[n], Remove(s.queue, n), s.previous)
             IN [kernel |-> [pos |-> "yield", queue |-> r.queue, left |-> n, cost |-> s.queue[n]],
                 previous |-> r.previous] : n \in popitem(s.queue)}

\* One next() on the generator dijkstra_kernel(graph, start, previous, cost_fn):
\* from its creation or from the yield it is suspended at, up to the next
\* yield or to its end.  The set of possible outcomes (one per key popitem
\* may remove), each the generator's new state and the new previous.
dijkstra_kernel(graph, begin, k, previous) ==
    LET s == IF k.pos = "new"
             THEN [queue |-> Put(EmptyDict, begin, 0),
                   previous |-> Put(previous, begin, <<None, 0, None>>)]
             ELSE Relax(Get(graph, k.left), k.left, k.cost, k.queue, previous)
    IN IF DOMAIN s.queue = {}
       THEN {[kernel |-> [pos |-> "done", queue |-> s.queue, left |-> k.left, cost |-> k.cost],
              previous |-> s.previous]}
       ELSE {[kernel |-> [pos |-> "yield", queue |-> Remove(s.queue, n),
                          left |-> n, cost |-> s.queue[n]],
              previous |-> s.previous] : n \in popitem(s.queue)}

\* ------------------------------------------------------------- backtrack
\* list(backtrack(previous, start)): the hops, last hop first.  ok is FALSE
\* when previous[left] raises KeyError (a node without entry); fuel bounds
\* the walk (a table whose predecessors loop would never end it).
RECURSIVE BacktrackFrom(_, _, _)
BacktrackFrom(previous, left, fuel) ==
    IF left \notin DOMAIN previous \/ fuel = 0 THEN [ok |-> FALSE, edges |-> <<>>]
    ELSE LET right == previous[left][1]
             payload == previous[left][3]
         IN IF right = None THEN [ok |-> TRUE, edges |-> <<>>]
            ELSE LET rest == BacktrackFrom(previous, right, fuel - 1)
                 IN [ok |-> rest.ok, edges |-> <<<<right, left, payload>>>> \o rest.edges]

\* the walk without "left = right": it never leaves the node it started from
backtrack_stuck(previous, from) ==
    IF from \in DOMAIN previous /\ previous[from][1] = None
    THEN [ok |-> TRUE, edges |-> <<>>]
    ELSE [ok |-> FALSE, edges |-> <<>>]

backtrack(previous, from) == BacktrackFrom(previous, from, Cardinality(DOMAIN previous) + 1)

\* ------------------------------------------------------------- bfs.py
\* list.pop in place of deque.popleft: the element added last
pop(queue) == [item |-> queue[Len(queue)], rest |-> SubSeq(queue, 1, Len(queue) - 1)]

\* deque.popleft: the element added first
popleft(queue) == [item |-> Head(queue), rest |-> Tail(queue)]

\* the for loop over the targets of the node yielded last
RECURSIVE Visit(_, _, _)
Visit(targets, queue, visited) ==
    IF targets = <<>> THEN [queue |-> queue, visited |-> visited]
    ELSE LET target == Head(targets)
         IN IF target \notin visited
            THEN Visit(Tail(targets), Append(queue, target), visited \cup {target})
            ELSE Visit(Tail(targets), queue, visited)

NewBfsKernel == [pos |-> "new", queue |-> <<>>, visited |-> {}, source |-> None]

\* One next() on the generator breadth_first_kernel(graph, start): from its
\* creation or from the yield it is suspended at, up to the next yield or
\* to its end.
breadth_first_kernel(graph, begin, k) ==
    LET s == IF k.pos = "new"
             THEN [queue |-> <<begin>>, visited |-> {begin}]
             ELSE Visit(Get(graph, k.source), k.queue, k.visited)
    IN IF Len(s.queue) = 0
       THEN [pos |-> "done", queue |-> s.queue, visited |-> s.visited, source |-> k.source]
       ELSE [pos |-> "yield", queue |-> popleft(s.queue).rest, visited |-> s.visited,
             source |-> popleft(s.queue).item]

\* the test left out: the loop is never broken
FoundNever(node_id, search) == FALSE

\* "if node_id == search"
Found(node_id, search) == node_id = search

NewBfsSearch == [pos |-> "new", kernel |-> NewBfsKernel, node_id |-> None]

\* One next() on the generator breadth_first_search(graph, start, search):
\* resumed after its yield it breaks when the node yielded was search, and
\* otherwise advances its kernel and yields what that yields.
breadth_first_search(graph, begin, search, g) ==
    IF g.pos = "yield" /\ Found(g.node_id, search)
    THEN [pos |-> "done", kernel |-> g.kernel, node_id |-> g.node_id]
    ELSE LET k == breadth_first_kernel(graph, begin, g.kernel)
         IN IF k.pos = "done"
            THEN [pos |-> "done", kernel |-> k, node_id |-> g.node_id]
            ELSE [pos |-> "yield", kernel |-> k, node_id |-> k.source]

\* ------------------------------------------------------------- inputs
Edges == Nodes \X Nodes \X (0..MaxCost)

\* position of an edge in a fixed enumeration of Edges
EdgeRank(e) == ((e[1] - 1) * NumNodes + (e[2] - 1)) * (MaxCost + 1) + e[3]

\* Edge lists handed to make_graph: up to MaxEdges edges between any two of
\* the nodes (self-loops and parallel edges included), listed in
\* non-decreasing rank; searched between every two of the nodes.
Sources ==
    UNION {{src \in [1..n -> Edges] :
               \A i \in 1..(n - 1) : EdgeRank(src[i]) <= EdgeRank(src[i + 1])} : n \in 0..MaxEdges}

SmallInputs == [source : Sources, start : Nodes, end : Nodes]

\* the edge lists of a shape, one per cost assignment, with its searches
ShapeInputs(shape) ==
    [source : {[i \in 1..Len(shape.pairs) |-> <<shape.pairs[i][1], shape.pairs[i][2], c[i]>>] :
                  c \in [1..Len(shape.pairs) -> 0..ShapeCost]},
     start : shape.starts, end : shape.ends]

Inputs == SmallInputs \cup ShapeInputs(RouteShape) \cup ShapeInputs(LoopShape)

\* ------------------------------------------------------------- state
VARIABLES
    graph, start, end,      \* the arguments of both calls
    pc,                     \* where the caller is
    previous, kernel,       \* dijkstra: the table and its generator
    id, cost,               \* dijkstra: the loop variables
    result,                 \* what dijkstra returned
    yielded,                \* the pairs dijkstra's kernel has yielded so far
    bwd_graph,              \* bidirect_dijkstra: reverse_graph(graph)
    fwd_previous, bwd_previous, fwd_kernel, bwd_kernel,
    fwd, bwd,               \* bidirect_dijkstra: the loop variables
    intersection, best_cost,\* bidirect_dijkstra: intersection and cost
    bi_result,              \* what bidirect_dijkstra returned
    fwd_yielded, bwd_yielded, \* the pairs each of its kernels has yielded so far
    stopped,                \* its loop was left through the stop test
    later_cost,             \* least candidate cost met in the rounds carried on after the stop
    raised,                 \* TRUE once a call has raised an exception
    cheaper,                \* the nodes a kernel found a cheaper cost for while they waited in its queue
    bfs_graph,              \* bfs.py: the graph, node -> list of nodes
    bfs_kernel, bfs_yielded,\* breadth_first_kernel(bfs_graph, start) and the nodes it has yielded
    bfs_search, search_yielded \* breadth_first_search(bfs_graph, start, end) and the nodes it has yielded

dvars == <<previous, kernel, id, cost, result, yielded>>

bvars == <<bwd_graph, fwd_previous, bwd_previous, fwd_kernel, bwd_kernel, fwd, bwd,
           intersection, best_cost, bi_result, fwd_yielded, bwd_yielded, stopped, later_cost>>

bfsvars == <<bfs_graph, bfs_kernel, bfs_yielded, bfs_search, search_yielded>>

vars == <<graph, start, end, pc, dvars, bvars, raised, cheaper, bfsvars>>

\* a call's return value: None, or the tuple (cost, edges)
NoResult == [some |-> FALSE, cost |-> 0, edges |-> <<>>]

InitRest ==
    /\ pc = "start"
    /\ previous = EmptyDict
    /\ kernel = NewKernel
    /\ id = None
    /\ cost = 0
    /\ result = NoResult
    /\ yielded = <<>>
    /\ bwd_graph = EmptyDict
    /\ fwd_previous = EmptyDict
    /\ bwd_previous = EmptyDict
    /\ fwd_kernel = NewKernel
    /\ bwd_kernel = NewKernel
    /\ fwd = <<None, 0>>
    /\ bwd = <<None, 0>>
    /\ intersection = None
    /\ best_cost = Inf
    /\ bi_result = NoResult
    /\ fwd_yielded = <<>>
    /\ bwd_yielded = <<>>
    /\ stopped = FALSE
    /\ later_cost = Inf
    /\ raised = FALSE
    /\ cheaper = {}
    /\ bfs_kernel = NewBfsKernel
    /\ bfs_yielded = <<>>
    /\ bfs_search = NewBfsSearch
    /\ search_yielded = <<>>

\* the graph of the same edges as bfs.py takes it: node -> list of nodes
NodeLists(g) == [n \in DOMAIN g |-> [i \in 1..Len(g[n]) |-> g[n][i][1]]]

Init ==
    /\ \E input \in Inputs :
          /\ graph = make_graph(input.source)
          /\ start = input.start
          /\ end = input.end
    /\ bfs_graph = NodeLists(graph)
    /\ InitRest

\* ------------------------------------------------------------- dijkstra
\* "previous = {}" and the creation of the generator
DijkstraCall ==
    /\ pc = "start"
    /\ previous' = EmptyDict
    /\ kernel' = NewKernel
    /\ pc' = "dijkstra"
    /\ UNCHANGED <<graph, start, end, bfsvars, cheaper, id, cost, result, yielded, bvars, raised>>

\* "if id == end" in the loop
ReachedEnd(node, target) == node = target

\* the test after the loop left out
EndFoundAlways(node, target) == TRUE

\* "if id == end" after the loop
EndFound(node, target) == node = target

\* one iteration of "for id, cost in dijkstra_kernel(...)": the kernel is
\* advanced; the loop ends when it is exhausted or when it yields end
DijkstraLoop ==
    /\ pc = "dijkstra"
    /\ \E out \in dijkstra_kernel(graph, start, kernel, previous) :
          /\ kernel' = out.kernel
          /\ previous' = out.previous
          /\ IF out.kernel.pos = "done"
             THEN /\ pc' = "dijkstra_after"
                  /\ UNCHANGED <<id, cost, yielded>>
             ELSE /\ id' = out.kernel.left
                  /\ cost' = out.kernel.cost
                  /\ yielded' = Append(yielded, <<out.kernel.left, out.kernel.cost>>)
                  /\ pc' = IF ReachedEnd(out.kernel.left, end) THEN "dijkstra_after" ELSE "dijkstra"
    /\ UNCHANGED <<graph, start, end, bfsvars, cheaper, result, bvars, raised>>

\* the list without "edges.reverse()"
PathToUnreversed(table, node) == backtrack(table, node).edges

\* "edges = list(backtrack(previous, id)); edges.reverse()"
PathTo(table, node) == Reverse(backtrack(table, node).edges)

\* the code after the loop: the path when end was reached, None otherwise
DijkstraReturn ==
    /\ pc = "dijkstra_after"
    /\ IF id = None
       THEN /\ raised' = TRUE           \* NameError: id was never bound
            /\ result' = NoResult
       ELSE IF EndFound(id, end)
       THEN /\ raised' = ~backtrack(previous, id).ok
            /\ result' = IF backtrack(previous, id).ok
                         THEN [some |-> TRUE, cost |-> cost, edges |-> PathTo(previous, id)]
                         ELSE NoResult
       ELSE /\ raised' = FALSE
            /\ result' = NoResult
    /\ pc' = "returned"
    /\ UNCHANGED <<graph, start, end, bfsvars, cheaper, previous, kernel, id, cost, yielded, bvars>>

\* ------------------------------------------------------------- bidirect_dijkstra
\* the tables, the two generators, "intersection = None", "cost = float('inf')"
BidirectCall ==
    /\ pc = "returned"
    /\ ~raised
    /\ fwd_previous' = EmptyDict
    /\ bwd_previous' = EmptyDict
    /\ fwd_kernel' = NewKernel
    /\ bwd_kernel' = NewKernel
    /\ bwd_graph' = reverse_graph(graph)
    /\ intersection' = None
    /\ best_cost' = Inf
    /\ pc' = "bidirect"
    /\ UNCHANGED <<graph, start, end, bfsvars, cheaper, dvars, fwd, bwd, bi_result, fwd_yielded, bwd_yielded,
                   stopped, later_cost, raised>>

\* check_intersects(id, previous), with the variables it closes over
check_intersects(node, table, fwd_table, bwd_table, best) ==
    IF node \in DOMAIN table
    THEN LET alt_cost == fwd_table[node][2] + bwd_table[node][2]
         IN IF alt_cost < best THEN <<node, alt_cost>> ELSE <<None, Inf>>
    ELSE <<None, Inf>>

\* fwd_previous[id] or bwd_previous[id] raises KeyError in check_intersects
CheckRaises(node, table, fwd_table, bwd_table) ==
    node \in DOMAIN table /\ (node \notin DOMAIN fwd_table \/ node \notin DOMAIN bwd_table)

\* min(a, b, c, key=itemgetter(1)): the first of the least
MinByCost(a, b, c) ==
    IF a[2] <= b[2] /\ a[2] <= c[2] THEN a
    ELSE IF b[2] <= c[2] THEN b ELSE c

\* the comparison turned round
StopTestFlipped(best, fwd_pair, bwd_pair) == best > fwd_pair[2] + bwd_pair[2]

\* "if cost < fwd[1] + bwd[1]: break"
StopTest(best, fwd_pair, bwd_pair) == best < fwd_pair[2] + bwd_pair[2]

\* zip that goes on past the end of a generator
ExhaustedNever(k) == FALSE

\* next() on a generator raised StopIteration: zip ends the loop
Exhausted(k) == k.pos = "done"

\* One step of "for fwd, bwd in zip(fwd_kernel, bwd_kernel)" and the loop
\* body: zip advances the forward generator, then the backward one, and ends
\* the loop as soon as one of them is exhausted.
BidirectRound ==
    /\ pc = "bidirect"
    /\ \E f \in dijkstra_kernel(graph, start, fwd_kernel, fwd_previous) :
          /\ fwd_kernel' = f.kernel
          /\ fwd_previous' = f.previous
          /\ IF Exhausted(f.kernel)
             THEN /\ pc' = "bidirect_after"
                  /\ UNCHANGED <<bwd_kernel, bwd_previous, fwd, bwd, intersection, best_cost,
                                 fwd_yielded, bwd_yielded, stopped, raised>>
             ELSE \E b \in dijkstra_kernel(bwd_graph, end, bwd_kernel, bwd_previous) :
                  /\ bwd_kernel' = b.kernel
                  /\ bwd_previous' = b.previous
                  /\ fwd_yielded' = Append(fwd_yielded, <<f.kernel.left, f.kernel.cost>>)
                  /\ IF Exhausted(b.kernel)
                     THEN /\ pc' = "bidirect_after"
                          /\ UNCHANGED <<fwd, bwd, intersection, best_cost, bwd_yielded,
                                         stopped, raised>>
                     ELSE LET fp == <<f.kernel.left, f.kernel.cost>>
                              bp == <<b.kernel.left, b.kernel.cost>>
                              bad == \/ CheckRaises(fp[1], b.previous, f.previous, b.previous)
                                     \/ CheckRaises(bp[1], f.previous, f.previous, b.previous)
                              best == IF bad THEN <<intersection, best_cost>>
                                      ELSE MinByCost(<<intersection, best_cost>>,
                                              check_intersects(fp[1], b.previous, f.previous,
                                                               b.previous, best_cost),
                                              check_intersects(bp[1], f.previous, f.previous,
                                                               b.previous, best_cost))
                          IN /\ fwd' = fp
                             /\ bwd' = bp
                             /\ bwd_yielded' = Append(bwd_yielded, bp)
                             /\ raised' = bad
                             /\ intersection' = best[1]
                             /\ best_cost' = best[2]
                             /\ stopped' = (~bad /\ StopTest(best[2], fp, bp))
                             /\ pc' = IF bad \/ StopTest(best[2], fp, bp)
                                      THEN "bidirect_after" ELSE "bidirect"
    /\ UNCHANGED <<graph, start, end, bfsvars, cheaper, dvars, bwd_graph, bi_result, later_cost>>

\* the backward hops appended as they are
FlipNot(edges) == edges

\* "(right, left, payload) for left, right, payload in backtrack(...)"
Flip(edges) == [i \in 1..Len(edges) |-> <<edges[i][2], edges[i][1], edges[i][3]>>]

\* the code after the loop: the joined path when an intersection was found
BidirectReturn ==
    /\ pc = "bidirect_after"
    /\ IF raised
       THEN UNCHANGED <<bi_result, raised>>
       ELSE IF intersection # None
       THEN LET ok == /\ backtrack(fwd_previous, intersection).ok
                      /\ backtrack(bwd_previous, intersection).ok
            IN /\ raised' = ~ok
               /\ bi_result' =
                     IF ok
                     THEN [some |-> TRUE, cost |-> best_cost,
                           edges |-> PathTo(fwd_previous, intersection)
                                     \o Flip(backtrack(bwd_previous, intersection).edges)]
                     ELSE NoResult
       ELSE /\ raised' = FALSE
            /\ bi_result' = NoResult
    /\ pc' = IF stopped THEN "carried_on" ELSE "done"
    /\ UNCHANGED <<graph, start, end, bfsvars, cheaper, dvars, bwd_graph, fwd_previous, bwd_previous,
                   fwd_kernel, bwd_kernel, fwd, bwd, intersection, best_cost,
                   fwd_yielded, bwd_yielded, stopped, later_cost>>

\* The rounds the stop test cut off, carried on with the same two
\* generators: each runs the two checks of the loop body against the cost
\* held at the stop and keeps the least candidate cost met.
CarryOnRound ==
    /\ pc = "carried_on"
    /\ \E f \in dijkstra_kernel(graph, start, fwd_kernel, fwd_previous) :
          /\ fwd_kernel' = f.kernel
          /\ fwd_previous' = f.previous
          /\ IF f.kernel.pos = "done"
             THEN /\ pc' = "done"
                  /\ UNCHANGED <<bwd_kernel, bwd_previous, later_cost>>
             ELSE \E b \in dijkstra_kernel(bwd_graph, end, bwd_kernel, bwd_previous) :
                  /\ bwd_kernel' = b.kernel
                  /\ bwd_previous' = b.previous
                  /\ IF b.kernel.pos = "done"
                     THEN /\ pc' = "done"
                          /\ UNCHANGED later_cost
                     ELSE /\ pc' = "carried_on"
                          /\ later_cost' =
                               MinByCost(<<None, later_cost>>,
                                   check_intersects(f.kernel.left, b.previous, f.previous,
                                                    b.previous, best_cost),
                                   check_intersects(b.kernel.left, f.previous, f.previous,
                                                    b.previous, best_cost))[2]
    /\ UNCHANGED <<graph, start, end, bfsvars, cheaper, dvars, bwd_graph, fwd, bwd, intersection, best_cost,
                   bi_result, fwd_yielded, bwd_yielded, stopped, raised>>

\* ------------------------------------------------------------- the kernel alone
\* the queue of a suspended generator as it was before the pop it is
\* suspended after
Frontier(k) == IF k.pos = "yield" THEN Put(k.queue, k.left, k.cost) ELSE k.queue

\* the nodes waiting in a queue whose cost is lower in a later queue
Cheaper(queue, later) == {n \in DOMAIN queue \cap DOMAIN later : later[n] < queue[n]}

\* One next() of a consumer that iterates dijkstra_kernel(graph, start,
\* previous, cost_fn) itself, until the generator is exhausted.
KernelNext ==
    /\ pc = "start"
    /\ kernel.pos # "done"
    /\ \E out \in dijkstra_kernel(graph, start, kernel, previous) :
          /\ kernel' = out.kernel
          /\ previous' = out.previous
          /\ yielded' = IF out.kernel.pos = "done" THEN yielded
                        ELSE Append(yielded, <<out.kernel.left, out.kernel.cost>>)
          /\ cheaper' = cheaper \cup Cheaper(kernel.queue, Frontier(out.kernel))
    /\ UNCHANGED <<graph, start, end, bfsvars, pc, id, cost, result, bvars, raised>>

Next ==
    \/ DijkstraCall
    \/ DijkstraLoop
    \/ DijkstraReturn
    \/ BidirectCall
    \/ BidirectRound
    \/ BidirectReturn
    \/ CarryOnRound

Spec == Init /\ [][Next]_vars

\* the kernel iterated to its end by a consumer that keeps asking
KernelSpec == Init /\ [][KernelNext]_vars /\ WF_vars(KernelNext)

\* ------------------------------------------------------------- bfs.py run
\* One next() of a consumer that iterates breadth_first_kernel(bfs_graph,
\* start) until the generator is exhausted.
BfsKernelNext ==
    /\ pc = "start"
    /\ bfs_kernel.pos # "done"
    /\ bfs_kernel' = breadth_first_kernel(bfs_graph, start, bfs_kernel)
    /\ bfs_yielded' = IF bfs_kernel'.pos = "done" THEN bfs_yielded
                       ELSE Append(bfs_yielded, bfs_kernel'.source)
    /\ UNCHANGED <<graph, start, end, pc, dvars, bvars, raised, cheaper,
                   bfs_graph, bfs_search, search_yielded>>

\* One next() of the same consumer, afterwards, on
\* breadth_first_search(bfs_graph, start, end), until it is exhausted.
BfsSearchNext ==
    /\ pc = "start"
    /\ bfs_kernel.pos = "done"
    /\ bfs_search.pos # "done"
    /\ bfs_search' = breadth_first_search(bfs_graph, start, end, bfs_search)
    /\ search_yielded' = IF bfs_search'.pos = "done" THEN search_yielded
                          ELSE Append(search_yielded, bfs_search'.node_id)
    /\ UNCHANGED <<graph, start, end, pc, dvars, bvars, raised, cheaper,
                   bfs_graph, bfs_kernel, bfs_yielded>>

BfsNext == BfsKernelNext \/ BfsSearchNext

BfsSpec == Init /\ [][BfsNext]_vars

\* ------------------------------------------------------------- what the claims speak of
\* the edges (left, right, payload) of a graph
EdgeSet(g) ==
    UNION {{<<left, g[left][i][1], g[left][i][2]>> : i \in 1..Len(g[left])} : left \in DOMAIN g}

\* the nodes reachable from a set of nodes over the edges of a graph
RECURSIVE ReachFrom(_, _)
ReachFrom(g, seen) ==
    LET more == seen \cup UNION {{Get(g, n)[i][1] : i \in 1..Len(Get(g, n))} : n \in seen}
    IN IF more = seen THEN seen ELSE ReachFrom(g, more)

Reachable(g, from) == ReachFrom(g, {from})

Least(costs) == CHOOSE c \in costs : \A d \in costs : c <= d

\* the least cost of a walk of at most k edges from one node to another
\* (Inf when there is none)
RECURSIVE WalkCost(_, _, _, _)
WalkCost(g, from, to, k) ==
    IF k = 0 THEN (IF from = to THEN 0 ELSE Inf)
    ELSE Least({IF from = to THEN 0 ELSE Inf}
               \cup {LET rest == WalkCost(g, Get(g, from)[i][1], to, k - 1)
                     IN IF rest = Inf THEN Inf ELSE cost_fn(Get(g, from)[i][2]) + rest :
                        i \in 1..Len(Get(g, from))})

\* the least cost of a walk between two nodes: with costs >= 0 a least walk
\* needs no node twice, so the walks of as many edges as there are nodes
\* (those that repeat a node included) decide it
MinWalkCost(g, from, to) == WalkCost(g, from, to, Cardinality(Reachable(g, from)))

\* edges is a contiguous walk of edges of g from one node to another
IsWalk(g, edges, from, to) ==
    /\ \A i \in 1..Len(edges) : edges[i] \in EdgeSet(g)
    /\ \A i \in 1..(Len(edges) - 1) : edges[i][2] = edges[i + 1][1]
    /\ IF edges = <<>> THEN from = to
       ELSE edges[1][1] = from /\ edges[Len(edges)][2] = to

RECURSIVE PathCost(_)
PathCost(edges) ==
    IF edges = <<>> THEN 0 ELSE cost_fn(Head(edges)[3]) + PathCost(Tail(edges))

NonDecreasing(pairs) == \A i, j \in 1..Len(pairs) : i < j => pairs[i][2] <= pairs[j][2]

YieldedNodes(pairs) == {pairs[i][1] : i \in 1..Len(pairs)}

DijkstraReturned == pc \notin {"start", "dijkstra", "dijkstra_after"}

BidirectReturned == pc \in {"carried_on", "done"}

\* ------------------------------------------------------------- claims
\* C1: when end is reachable from start, the cost dijkstra returns is the
\* least cost of a walk from start to end.
C1_ShortestPathCost ==
    (DijkstraReturned /\ end \in Reachable(graph, start)) =>
        (result.some /\ result.cost = MinWalkCost(graph, start, end))

\* C1 witness: dijkstra returned a path of two or more edges although a
\* dearer edge leads from start to end directly.
C1_Witness ==
    /\ DijkstraReturned
    /\ result.some
    /\ Len(result.edges) >= 2
    /\ \E e \in EdgeSet(graph) : e[1] = start /\ e[2] = end /\ cost_fn(e[3]) > result.cost

\* C2: bidirect_dijkstra returns the same total cost as dijkstra (and None
\* when dijkstra returns None).
C2_BidirectSameCost ==
    BidirectReturned =>
        /\ bi_result.some = result.some
        /\ result.some => bi_result.cost = result.cost

\* C3: the costs a kernel yields never decrease.
C3_NonDecreasingPops == NonDecreasing(yielded)

\* C3 witness: an exhausted kernel that yielded three or more nodes, the
\* last at a higher cost than the first.
C3_Witness ==
    /\ kernel.pos = "done"
    /\ Len(yielded) >= 3
    /\ yielded[1][2] < yielded[Len(yielded)][2]

\* C4: after the loop was left through the stop test, no round carried on
\* past it records a meeting candidate cheaper than the cost held at the stop.
C4_StopIsFinal == stopped => later_cost >= best_cost

\* C5: dijkstra returns None exactly when end is not reachable from start;
\* it then ends with its kernel exhausted, and no call raises.
C5_NoPathIsNone ==
    DijkstraReturned =>
        /\ ~raised
        /\ result.some <=> end \in Reachable(graph, start)
        /\ ~result.some => kernel.pos = "done"

\* C5 witness: dijkstra returned None, its kernel exhausted, from a start
\* that has no outgoing edge and is no key of the graph.
C5_Witness ==
    /\ DijkstraReturned
    /\ ~result.some
    /\ ~raised
    /\ kernel.pos = "done"
    /\ start \notin DOMAIN graph
    /\ DOMAIN graph # {}

\* C6: bidirect_dijkstra returns None exactly when end is not reachable from
\* start: with no path no candidate is recorded, with a path one is recorded
\* before the loop ends; nothing is raised.
C6_BidirectNoPathIsNone ==
    pc \in {"bidirect_after", "carried_on", "done"} =>
        /\ ~raised
        /\ (intersection # None) <=> end \in Reachable(graph, start)
        /\ BidirectReturned => (bi_result.some <=> end \in Reachable(graph, start))

\* C6 witness: the loop ended because a kernel was exhausted, not through
\* the stop test, and a candidate had been recorded on a path of two or more
\* edges.
C6_Witness ==
    /\ BidirectReturned
    /\ ~stopped
    /\ bi_result.some
    /\ Len(bi_result.edges) >= 2
    /\ (fwd_kernel.pos = "done" \/ bwd_kernel.pos = "done")

\* C7: the total cost bidirect_dijkstra returns is the sum of the costs of
\* the edges it returns, and is the sum of the two tables' costs of the
\* meeting node at the time the path is rebuilt.
C7_BidirectCostIsPathCost ==
    /\ (BidirectReturned /\ bi_result.some) => bi_result.cost = PathCost(bi_result.edges)
    /\ (pc = "bidirect_after" /\ ~raised /\ intersection # None) =>
           best_cost = fwd_previous[intersection][2] + bwd_previous[intersection][2]

\* C8: the edges bidirect_dijkstra returns are a contiguous walk of edges of
\* the graph from start to end, the forward part first, and are empty only
\* when start = end.
C8_BidirectPathIsWalk ==
    (BidirectReturned /\ bi_result.some) =>
        /\ IsWalk(graph, bi_result.edges, start, end)
        /\ bi_result.edges = <<>> => start = end
        /\ \E k \in 0..Len(bi_result.edges) :
              /\ IsWalk(graph, SubSeq(bi_result.edges, 1, k), start, intersection)
              /\ IsWalk(graph, SubSeq(bi_result.edges, k + 1, Len(bi_result.edges)),
                        intersection, end)
              /\ SubSeq(bi_result.edges, 1, k) = PathTo(fwd_previous, intersection)

\* C8 witness: a returned path whose forward part and whose backward part
\* both have edges.
C8_Witness ==
    /\ pc = "carried_on" \/ pc = "done"
    /\ bi_result.some
    /\ intersection # start
    /\ intersection # end
    /\ bwd_previous[intersection][1] # end

\* C9: the edges dijkstra returns are a contiguous walk of edges of the graph
\* from start to end, in that order, empty exactly when start = end, and
\* their costs add up to the cost returned.
C9_PathIsWalk ==
    (DijkstraReturned /\ result.some) =>
        /\ IsWalk(graph, result.edges, start, end)
        /\ result.edges = <<>> <=> start = end
        /\ PathCost(result.edges) = result.cost

\* C9 witness: dijkstra returned a path of two edges or more.
C9_Witness ==
    /\ pc = "returned"
    /\ result.some
    /\ Len(result.edges) >= 2
    /\ result.cost > 0

\* C10: a kernel that is advanced again and again ends exhausted, with an
\* empty frontier, having yielded exactly the nodes reachable from start;
\* where only start is reachable it has yielded start once.
C10_KernelExhausts ==
    <>(/\ kernel.pos = "done"
       /\ DOMAIN kernel.queue = {}
       /\ YieldedNodes(yielded) = Reachable(graph, start)
       /\ Reachable(graph, start) = {start} => yielded = <<<<start, 0>>>>)

\* C10 witness: an exhausted kernel on a graph with a reachable node besides
\* start and with an edge that leaves a node that is not reachable.
C10_Witness ==
    /\ pc = "start"
    /\ kernel.pos = "done"
    /\ Len(yielded) >= 2
    /\ \E e \in EdgeSet(graph) : e[1] \notin Reachable(graph, start)

\* the number of times an edge (left, right, payload) is in a graph
EdgeCount(g, e) ==
    IF e[1] \in DOMAIN g
    THEN Cardinality({i \in 1..Len(g[e[1]]) : g[e[1]][i] = <<e[2], e[3]>>})
    ELSE 0

Turned(e) == <<e[2], e[1], e[3]>>

\* C11: reverse_graph(g) holds the edge (to, from, payload) exactly as many
\* times as g holds (from, to, payload) and no other edge, and reversing
\* twice gives the edges of g back, each as many times as g holds it.
C11_ReverseTwice ==
    (pc = "bidirect" /\ fwd_kernel.pos = "new") =>
        LET twice == reverse_graph(bwd_graph)
        IN /\ \A e \in EdgeSet(graph) :
                 EdgeCount(bwd_graph, Turned(e)) = EdgeCount(graph, e)
           /\ \A e \in EdgeSet(bwd_graph) :
                 EdgeCount(graph, Turned(e)) = EdgeCount(bwd_graph, e)
           /\ \A e \in EdgeSet(graph) \cup EdgeSet(twice) :
                 EdgeCount(twice, e) = EdgeCount(graph, e)

\* C11 witness: a reversed graph whose original holds one edge between two
\* different nodes twice, and an edge with another payload.
C11_Witness ==
    /\ pc = "bidirect"
    /\ fwd_kernel.pos = "new"
    /\ \E e \in EdgeSet(graph) : e[1] # e[2] /\ EdgeCount(graph, e) = 2
    /\ EdgeSet(bwd_graph) # EdgeSet(graph)

\* the number of hops of a shortest way to a node from a set of nodes over
\* the edges of a graph node -> list of nodes (Inf when there is no way)
RECURSIVE HopsFrom(_, _, _, _)
HopsFrom(g, seen, to, d) ==
    LET more == seen \cup UNION {{Get(g, n)[i] : i \in 1..Len(Get(g, n))} : n \in seen}
    IN IF to \in seen THEN d
       ELSE IF more = seen THEN Inf
       ELSE HopsFrom(g, more, to, d + 1)

Hops(g, from, to) == HopsFrom(g, {from}, to, 0)

NodesWithin(g, from) == {n \in DOMAIN g \cup {from} \cup UNION {{g[m][i] : i \in 1..Len(g[m])} : m \in DOMAIN g} :
                            Hops(g, from, n) < Inf}

\* C12: breadth_first_kernel yields start first, yields no node twice and
\* only nodes reachable from start, never yields a node after a node that
\* is more hops away from start, and once exhausted has yielded every node
\* reachable from start.
C12_BfsLevelOrder ==
    LET n == Len(bfs_yielded)
    IN /\ n > 0 => bfs_yielded[1] = start
       /\ \A i \in 1..n : Hops(bfs_graph, start, bfs_yielded[i]) < Inf
       /\ \A i, j \in 1..n :
             i < j => /\ bfs_yielded[i] # bfs_yielded[j]
                      /\ Hops(bfs_graph, start, bfs_yielded[i])
                            <= Hops(bfs_graph, start, bfs_yielded[j])
       /\ bfs_kernel.pos = "done" =>
             {bfs_yielded[i] : i \in 1..n} = NodesWithin(bfs_graph, start)

\* C12 witness: an exhausted kernel that yielded three or more nodes, on a
\* graph where a node yielded has an edge back to a node yielded before it
\* and where some node is not reachable.
C12_Witness ==
    /\ bfs_kernel.pos = "done"
    /\ Len(bfs_yielded) >= 3
    /\ \E i, j \in 1..Len(bfs_yielded) :
          /\ i < j
          /\ \E k \in 1..Len(Get(bfs_graph, bfs_yielded[j])) :
                Get(bfs_graph, bfs_yielded[j])[k] = bfs_yielded[i]
    /\ \E m \in DOMAIN bfs_graph : Hops(bfs_graph, start, m) = Inf

\* C13: breadth_first_search yields the nodes its kernel yields, in the same
\* order, up to and including the first that is the search node and none
\* after it; when the search node is never yielded it yields them all and
\* then ends.
C13_SearchIsPrefix ==
    LET n == Len(search_yielded)
    IN /\ n <= Len(bfs_yielded)
       /\ search_yielded = SubSeq(bfs_yielded, 1, n)
       /\ \A i \in 1..(n - 1) : search_yielded[i] # end
       /\ bfs_search.pos = "done" =>
             IF \E i \in 1..Len(bfs_yielded) : bfs_yielded[i] = end
             THEN n > 0 /\ search_yielded[n] = end
             ELSE search_yielded = bfs_yielded

\* C13 witness: a search that ended on the search node after yielding two
\* or more nodes, with nodes its kernel would have yielded left over.
C13_Witness ==
    /\ bfs_search.pos = "done"
    /\ Len(search_yielded) >= 2
    /\ search_yielded[Len(search_yielded)] = end
    /\ Len(search_yielded) < Len(bfs_yielded)

\* C14: a step of a kernel deletes no entry of its table and changes an
\* entry only to one of strictly lower cost; once the kernel has started,
\* the entry of start is (None, 0, None) and stays so.
C14_TableOnlyImproves ==
    [][/\ \A n \in DOMAIN previous :
             /\ n \in DOMAIN previous'
             /\ previous'[n] = previous[n] \/ previous'[n][2] < previous[n][2]
       /\ kernel'.pos # "new" =>
             start \in DOMAIN previous' /\ previous'[start] = <<None, 0, None>>]_vars

\* C14 witness: the entry of a node has been replaced by a cheaper one: an
\* edge leads to it from start, the first node relaxed, at a higher cost
\* than its entry holds, and its entry names another predecessor.
C14_Witness ==
    /\ pc = "start"
    /\ kernel.pos = "done"
    /\ \E e \in EdgeSet(graph) :
          /\ e[1] = start
          /\ e[2] # start
          /\ previous[e[2]][1] # start
          /\ previous[e[2]][2] < cost_fn(e[3])
    /\ \E e \in EdgeSet(graph) : e[2] = start /\ e[1] \in DOMAIN previous

\* C15: the cost a node is yielded with is the cost its entry holds and the
\* least cost of a walk from start to it, and after the yield no step
\* changes its entry.
C15_YieldedIsFinal ==
    [][\A i \in 1..Len(yielded') :
          LET node == yielded'[i][1]
          IN /\ node \in DOMAIN previous'
             /\ previous'[node][2] = yielded'[i][2]
             /\ yielded'[i][2] = MinWalkCost(graph, start, node)
             /\ i <= Len(yielded) => previous'[node] = previous[node]]_vars

\* C15 witness: three or more nodes were yielded, and an edge leads from
\* the node yielded last to one yielded before it, other than start.
C15_Witness ==
    /\ pc = "start"
    /\ Len(yielded) >= 3
    /\ \E i \in 2..(Len(yielded) - 1) :
          <<yielded[Len(yielded)][1], yielded[i][1]>> \in {<<e[1], e[2]>> : e \in EdgeSet(graph)}
    /\ kernel.pos = "done"

\* C16: when the loop of bidirect_dijkstra has ended with a meeting node,
\* that node has been yielded by the forward kernel and by the backward
\* kernel.
C16_MeetingNodeSettledTwice ==
    (pc = "bidirect_after" /\ ~raised /\ intersection # None) =>
        /\ intersection \in YieldedNodes(fwd_yielded)
        /\ intersection \in YieldedNodes(bwd_yielded)

\* the number of times a node has been yielded
TimesYielded(pairs, node) == Cardinality({i \in 1..Len(pairs) : pairs[i][1] = node})

\* C17: a node for which the kernel found a cheaper cost while it waited in
\* the frontier is yielded more than once by the time the kernel is
\* exhausted: once for the stale entry too.
C17_StaleEntryYielded ==
    kernel.pos = "done" => \A n \in cheaper : TimesYielded(yielded, n) >= 2

\* C17, amended: a cheaper cost found for a node that waits in the frontier
\* replaces the node's entry there, so the frontier holds a node once, at
\* the cost its table entry holds, and never a node yielded before; every
\* node is yielded at most once.
C17_FrontierEntryReplaced ==
    /\ \A n \in DOMAIN kernel.queue :
          /\ n \in DOMAIN previous
          /\ kernel.queue[n] = previous[n][2]
          /\ TimesYielded(yielded, n) = 0
    /\ \A n \in YieldedNodes(yielded) : TimesYielded(yielded, n) = 1

\* C17 witness: an exhausted kernel that had found a cheaper cost for a
\* node waiting in its frontier.
C17_Witness ==
    /\ pc = "start"
    /\ kernel.pos = "done"
    /\ cheaper # {}
    /\ Len(yielded) >= 3

\* no edge of the node a generator is suspended on has been relaxed: no
\* entry of its table names that node as predecessor
Unrelaxed(k, table) == k.pos = "yield" => \A n \in DOMAIN table : table[n][1] # k.left

\* C18: while a kernel is suspended on a node it has yielded, none of that
\* node's edges has been relaxed: every entry but start's, and so every
\* node in the frontier, was put there by the relaxation of a node yielded
\* strictly earlier.  This holds for as long as the consumer does not ask
\* for the next element, so for good once dijkstra has left its loop.
C18_YieldBeforeRelax ==
    /\ Unrelaxed(kernel, previous)
    /\ Unrelaxed(fwd_kernel, fwd_previous)
    /\ Unrelaxed(bwd_kernel, bwd_previous)
    /\ kernel.pos = "yield" =>
          /\ \A n \in DOMAIN previous \ {start} :
                previous[n][1] \in YieldedNodes(SubSeq(yielded, 1, Len(yielded) - 1))
          /\ \A n \in DOMAIN kernel.queue : n \in DOMAIN previous \ {start}

\* C18 witness: both calls have returned, and dijkstra has left its kernel
\* suspended on end, which has an edge whose relaxation would have lowered
\* the cost of another node's entry.
C18_Witness ==
    /\ pc = "done"
    /\ kernel.pos = "yield"
    /\ kernel.left = end
    /\ result.some
    /\ start # end
    /\ \E e \in EdgeSet(graph) :
          /\ e[1] = end
          /\ e[2] \in DOMAIN previous
          /\ kernel.cost + cost_fn(e[3]) < previous[e[2]][2]

\* C19: a round of the loop of bidirect_dijkstra advances the forward
\* kernel and then the backward kernel.  When the forward kernel is
\* exhausted the backward one is not advanced; when either is exhausted the
\* loop ends and the round's check is not run (intersection and cost stay);
\* otherwise each kernel has yielded one node more, and only then may the
\* check change the intersection and the stop test end the loop.  The
\* forward kernel has yielded as many nodes as the backward kernel, or one
\* more when the backward kernel was exhausted in the last round.
C19_Lockstep ==
    [][pc = "bidirect" =>
         LET more_fwd == Len(fwd_yielded') - Len(fwd_yielded)
             more_bwd == Len(bwd_yielded') - Len(bwd_yielded)
         IN /\ Len(fwd_yielded) = Len(bwd_yielded)
            /\ IF fwd_kernel'.pos = "done"
               THEN /\ bwd_kernel' = bwd_kernel
                    /\ more_fwd = 0 /\ more_bwd = 0
                    /\ pc' = "bidirect_after"
                    /\ intersection' = intersection /\ best_cost' = best_cost
               ELSE IF bwd_kernel'.pos = "done"
               THEN /\ more_fwd = 1 /\ more_bwd = 0
                    /\ pc' = "bidirect_after"
                    /\ intersection' = intersection /\ best_cost' = best_cost
               ELSE /\ more_fwd = 1 /\ more_bwd = 1
                    /\ fwd' = fwd_yielded'[Len(fwd_yielded')]
                    /\ bwd' = bwd_yielded'[Len(bwd_yielded')]
                    /\ pc' = "bidirect_after" => (raised' \/ StopTest(best_cost', fwd', bwd'))]_vars

\* C19 witness: the loop has ended because the backward kernel was
\* exhausted in a round in which the forward kernel yielded a node, after
\* two or more full rounds and with an intersection held.
C19_Witness ==
    /\ pc = "bidirect_after"
    /\ bwd_kernel.pos = "done"
    /\ Len(fwd_yielded) = Len(bwd_yielded) + 1
    /\ Len(bwd_yielded) >= 2
    /\ intersection # None

\* C20: in every state of a kernel run the table is a tree rooted at start:
\* the entry of start has no predecessor and cost 0; every other entry
\* names a predecessor that has an entry and has been yielded, over an edge
\* of the graph with the stored payload, and its cost is the predecessor's
\* cost plus cost_fn of that payload; backtrack from any node with an
\* entry ends, and its hops, last hop first and none for the entry of
\* start, are a walk from start to the node whose costs add up to the
\* node's stored cost.
C20_TableIsTree ==
    \A n \in DOMAIN previous :
        /\ start \in DOMAIN previous /\ previous[start] = <<None, 0, None>>
        /\ n # start =>
              LET left == previous[n][1]
              IN /\ left \in DOMAIN previous
                 /\ left \in YieldedNodes(yielded)
                 /\ <<left, n, previous[n][3]>> \in EdgeSet(graph)
                 /\ previous[n][2] = previous[left][2] + cost_fn(previous[n][3])
        /\ LET hops == backtrack(previous, n)
           IN /\ hops.ok
              /\ IsWalk(graph, Reverse(hops.edges), start, n)
              /\ hops.edges # <<>> => hops.edges[1] = <<previous[n][1], n, previous[n][3]>>
              /\ \A i \in 1..Len(hops.edges) : hops.edges[i][1] # None
              /\ PathCost(hops.edges) = previous[n][2]

\* C20 witness: a table with an entry three hops from start, reached after
\* the entry of some node was replaced by a cheaper one.
C20_Witness ==
    /\ pc = "start"
    /\ cheaper # {}
    /\ \E n \in DOMAIN previous : Len(backtrack(previous, n).edges) >= 3

====
